---- MODULE Spec2Model ----
(***************************************************************************)
(* A model of the medical scribe service: the Deepgram transcription       *)
(* client and its speaker grouping (app/services/transcription.py), the    *)
(* file transcript store, the audio and notes pipelines and the two HTTP   *)
(* handlers (app/api.py), the prompt builder (app/prompts.py) and the      *)
(* chat completion client (app/services/llm.py).                           *)
(*                                                                         *)
(* Python values are tagged records, strings are TLA+ strings, a dict is a *)
(* function from key strings to values, an exception is a record of its    *)
(* class and message, and an expression that may raise evaluates to        *)
(* Ok(value) or Raise(exception).                                          *)
(***************************************************************************)
EXTENDS Integers, Sequences, FiniteSets, TLC

(***************************************************************************)
(* Bounds of the model.                                                    *)
(***************************************************************************)
\* longest words array of a speech API response
MaxWords == 3
\* number of HTTP requests (uploads and notes requests) in one run
MaxReqs == 3
\* number of save_transcript calls in the store specification
MaxSaves == 3

(***************************************************************************)
(* Python values and the operations the code applies to them.              *)
(***************************************************************************)
None == [type |-> "NoneType"]
PyStr(s) == [type |-> "str", v |-> s]
PyInt(n) == [type |-> "int", v |-> n]
PyList(items) == [type |-> "list", v |-> items]
PyDict(d) == [type |-> "dict", v |-> d]
EmptyDict == PyDict(<<>>)

Exc(type, msg) == [type |-> type, msg |-> msg]
Ok(v) == [ok |-> TRUE, val |-> v]
Raise(e) == [ok |-> FALSE, exc |-> e]

\* sequencing of statements: a raised exception passes, a value goes on
Then(r, Rest(_)) == IF r.ok THEN Rest(r.val) ELSE r

\* str(x), as an f-string field renders it
str(x) ==
  CASE x.type = "NoneType" -> "None"
    [] x.type = "str" -> x.v
    [] x.type = "int" -> ToString(x.v)
    [] OTHER -> "<" \o x.type \o ">"

\* PyEq with None equal to nothing, itself included
PyEq_none_unequal(a, b) ==
  /\ a.type = b.type
  /\ a.type \in {"str", "int"}
  /\ a.v = b.v

\* a == b on the values a speaker id can take
PyEq(a, b) ==
  /\ a.type = b.type
  /\ a.type \in {"str", "int"} => a.v = b.v

\* bool(x)
truthy(x) ==
  CASE x.type = "NoneType" -> FALSE
    [] x.type = "str" -> x.v # ""
    [] x.type = "int" -> x.v # 0
    [] x.type = "list" -> x.v # <<>>
    [] x.type = "dict" -> DOMAIN x.v # {}
    [] OTHER -> TRUE

\* d.get(k, default): only a dict has the method
dict_get(d, k, default) ==
  IF d.type # "dict"
  THEN Raise(Exc("AttributeError",
                 "'" \o d.type \o "' object has no attribute 'get'"))
  ELSE Ok(IF k \in DOMAIN d.v THEN d.v[k] ELSE default)

\* x[k] for a string key k
subscript_key(x, k) ==
  CASE x.type = "dict" ->
         IF k \in DOMAIN x.v THEN Ok(x.v[k])
         ELSE Raise(Exc("KeyError", "'" \o k \o "'"))
    [] x.type = "list" ->
         Raise(Exc("TypeError", "list indices must be integers or slices, not str"))
    [] x.type = "str" ->
         Raise(Exc("TypeError", "string indices must be integers, not 'str'"))
    [] OTHER ->
         Raise(Exc("TypeError", "'" \o x.type \o "' object is not subscriptable"))

\* x[0]
subscript_zero(x) ==
  CASE x.type = "list" ->
         IF x.v # <<>> THEN Ok(x.v[1])
         ELSE Raise(Exc("IndexError", "list index out of range"))
    [] x.type = "dict" -> Raise(Exc("KeyError", "0"))
    [] x.type = "str" ->
         IF x.v # "" THEN Ok(PyStr(SubSeq(x.v, 1, 1)))
         ELSE Raise(Exc("IndexError", "string index out of range"))
    [] OTHER ->
         Raise(Exc("TypeError", "'" \o x.type \o "' object is not subscriptable"))

\* sep.join(parts) for a sequence of TLA+ strings
RECURSIVE JoinStrings(_, _)
JoinStrings(sep, parts) ==
  IF parts = <<>> THEN ""
  ELSE IF Len(parts) = 1 THEN parts[1]
  ELSE parts[1] \o sep \o JoinStrings(sep, Tail(parts))

\* sep.join(items) for a list of Python values: every item must be a str
FirstNonStr(items) ==
  CHOOSE k \in 1..Len(items) :
    /\ items[k].type # "str"
    /\ \A j \in 1..(k - 1) : items[j].type = "str"

join_error(items, i) ==
  Exc("TypeError", "sequence item " \o ToString(i - 1)
                     \o ": expected str instance, " \o items[i].type \o " found")

join(sep, items) ==
  IF \E i \in 1..Len(items) : items[i].type # "str"
  THEN Raise(join_error(items, FirstNonStr(items)))
  ELSE Ok(JoinStrings(sep, [i \in 1..Len(items) |-> items[i].v]))

(***************************************************************************)
(* app/services/transcription.py: transcribe                               *)
(***************************************************************************)
DeepgramTranscriptionError(msg) == Exc("DeepgramTranscriptionError", msg)

\* the httpx classes the handlers of transcribe name, and their subclasses
TimeoutClasses == {"ConnectTimeout", "ReadTimeout", "WriteTimeout", "PoolTimeout"}
HTTPErrorClasses ==
  TimeoutClasses \cup {"HTTPStatusError", "ConnectError", "ReadError", "RemoteProtocolError"}

\* response.raise_for_status(): any status outside 2xx raises
raise_for_status(response) ==
  IF response.status_code \in 200..299 THEN Ok(response)
  ELSE Raise([type |-> "HTTPStatusError",
              msg |-> "status " \o ToString(response.status_code),
              response |-> response])

\* response.json()
response_json(response) ==
  IF response.body.json THEN Ok(response.body.value)
  ELSE Raise(Exc("JSONDecodeError", "Expecting value: line 1 column 1 (char 0)"))

\* if not results.get('results', {}).get('channels', []): raise
validate_structure(results) ==
  Then(dict_get(results, "results", EmptyDict), LAMBDA r :
  Then(dict_get(r, "channels", PyList(<<>>)), LAMBDA channels :
    IF ~truthy(channels)
    THEN Raise(DeepgramTranscriptionError("Invalid API response structure"))
    ELSE Ok(results)))

\* results['results']['channels'][0]['alternatives'][0]['words']
words_path(results) ==
  Then(subscript_key(results, "results"), LAMBDA r :
  Then(subscript_key(r, "channels"), LAMBDA channels :
  Then(subscript_zero(channels), LAMBDA channel :
  Then(subscript_key(channel, "alternatives"), LAMBDA alternatives :
  Then(subscript_zero(alternatives), LAMBDA alternative :
    subscript_key(alternative, "words"))))))

\* except (KeyError, IndexError) as e around the path
words_except(w) ==
  IF ~w.ok /\ w.exc.type \in {"KeyError", "IndexError"}
  THEN Raise(DeepgramTranscriptionError(
               "Failed to extract words from response: " \o w.exc.msg))
  ELSE w

extract_words(results) == words_except(words_path(results))

\* f"Speaker {current_speaker}: {' '.join(current_sentence)}."
render_sentence(current_speaker, current_sentence) ==
  Then(join(" ", current_sentence), LAMBDA joined :
    Ok("Speaker " \o str(current_speaker) \o ": " \o joined \o "."))

\* the locals of transcribe before the loop; utterances records, beside each
\* rendered sentence, the speaker and the word list it was rendered from
GroupInit ==
  [current_speaker |-> None,
   current_sentence |-> <<>>,
   diarised_sentences |-> <<>>,
   utterances |-> <<>>]

\* flush without "current_sentence = []"
flush_keeps_sentence(st) ==
  Then(render_sentence(st.current_speaker, st.current_sentence), LAMBDA sentence :
    Ok([st EXCEPT
          !.diarised_sentences = Append(@, sentence),
          !.utterances = Append(@, [speaker |-> st.current_speaker,
                                    words |-> st.current_sentence])]))

\* flush current_sentence into diarised_sentences
flush(st) ==
  Then(render_sentence(st.current_speaker, st.current_sentence), LAMBDA sentence :
    Ok([st EXCEPT
          !.diarised_sentences = Append(@, sentence),
          !.utterances = Append(@, [speaker |-> st.current_speaker,
                                    words |-> st.current_sentence]),
          !.current_sentence = <<>>]))

\* one iteration of "for word_info in words": an exception anywhere in the
\* body is logged and the entry skipped (continue), the locals as they were
take_word(st, speaker, word) ==
  [st EXCEPT !.current_speaker = speaker, !.current_sentence = Append(@, word)]

\* the body of the try block of the loop, ending in a raise or in the locals
group_body(st, word_info) ==
  Then(dict_get(word_info, "speaker", None), LAMBDA speaker :
  Then(dict_get(word_info, "word", PyStr("")), LAMBDA raw :
  Then(dict_get(word_info, "punctuated_word", raw), LAMBDA word :
    IF ~PyEq(speaker, st.current_speaker) /\ st.current_sentence # <<>>
    THEN Then(flush(st), LAMBDA flushed : Ok(take_word(flushed, speaker, word)))
    ELSE Ok(take_word(st, speaker, word)))))

\* except Exception: logger.warning(...); continue
skip_on_error(st, body) == IF body.ok THEN body.val ELSE st

group_word(st, word_info) == skip_on_error(st, group_body(st, word_info))

RECURSIVE group_words(_, _)
group_words(st, words) ==
  IF words = <<>> THEN st
  ELSE group_words(group_word(st, Head(words)), Tail(words))

\* lines 105-137: the loop, the last flush and the joined transcript
last_flush(st) == IF st.current_sentence # <<>> THEN flush(st) ELSE Ok(st)

diarise(words) ==
  IF words.type # "list"
  THEN Raise(Exc("TypeError", "'" \o words.type \o "' object is not iterable"))
  ELSE Then(last_flush(group_words(GroupInit, words.v)), LAMBDA st :
         Ok([transcript |-> JoinStrings(" ", st.diarised_sentences),
             utterances |-> st.utterances,
             words |-> words.v]))

\* the body of the try block after the awaited post has returned a response
process_response(response) ==
  Then(raise_for_status(response), LAMBDA checked :
  Then(response_json(response), LAMBDA results :
  Then(validate_structure(results), LAMBDA valid :
  Then(extract_words(results), LAMBDA words :
    diarise(words)))))

\* status_error without the branch for 401
status_error_no_auth(response) ==
  IF response.status_code = 400
  THEN DeepgramTranscriptionError("Bad request: " \o response.text)
  ELSE IF response.status_code = 429
  THEN DeepgramTranscriptionError("Rate limit exceeded. Try again later.")
  ELSE DeepgramTranscriptionError(
         "API request failed with status " \o ToString(response.status_code))

\* except httpx.HTTPStatusError: the message by status code
status_error(response) ==
  IF response.status_code = 401
  THEN DeepgramTranscriptionError("Authentication failed. Check your API key.")
  ELSE IF response.status_code = 400
  THEN DeepgramTranscriptionError("Bad request: " \o response.text)
  ELSE IF response.status_code = 429
  THEN DeepgramTranscriptionError("Rate limit exceeded. Try again later.")
  ELSE DeepgramTranscriptionError(
         "API request failed with status " \o ToString(response.status_code))

\* handle_exception with a timeout raised again as it is
handle_exception_reraises_timeout(e) ==
  IF e.type \in TimeoutClasses
  THEN e
  ELSE IF e.type = "HTTPStatusError"
  THEN status_error(e.response)
  ELSE IF e.type \in HTTPErrorClasses
  THEN DeepgramTranscriptionError("HTTP request failed: " \o e.msg)
  ELSE DeepgramTranscriptionError("Transcription failed: " \o e.msg)

\* the except clauses of transcribe, in their order
handle_exception(e) ==
  IF e.type \in TimeoutClasses
  THEN DeepgramTranscriptionError("Transcription request timed out")
  ELSE IF e.type = "HTTPStatusError"
  THEN status_error(e.response)
  ELSE IF e.type \in HTTPErrorClasses
  THEN DeepgramTranscriptionError("HTTP request failed: " \o e.msg)
  ELSE DeepgramTranscriptionError("Transcription failed: " \o e.msg)

\* check_audio as "if audio_data is None", which no bytes value satisfies
check_audio_is_none(audio_data) == Ok(audio_data)

\* if not audio_data: raise, before the try block and before any request
check_audio(audio_data) ==
  IF audio_data = ""
  THEN Raise(DeepgramTranscriptionError("Audio data is empty"))
  ELSE Ok(audio_data)

\* transcribe from the point the awaited post ends with outcome o: the post
\* raised (o.raised) or returned a response
try_block(o) == IF o.raised THEN Raise(o.exc) ELSE process_response(o.response)

except_clauses(r) == IF r.ok THEN r ELSE Raise(handle_exception(r.exc))

transcribe_result(o) == except_clauses(try_block(o))

(***************************************************************************)
(* app/api.py: FileStorageStrategy.  The transcript file is absent or has  *)
(* a text content; the audio directory is the sequence of files written.   *)
(***************************************************************************)
NoFile == [exists |-> FALSE, content |-> ""]

\* save_transcript that opens the file with "w"
save_transcript_truncates(file, transcript) ==
  [exists |-> TRUE, content |-> transcript \o "\n"]

\* open(TRANSCRIPT_FILE, "a") creates the file; f.write(transcript + "\n")
save_transcript(file, transcript) ==
  [exists |-> TRUE, content |-> file.content \o transcript \o "\n"]

\* f.readlines(): the content cut after every line feed, the line feed kept
RECURSIVE ScanLines(_, _, _)
ScanLines(s, start, i) ==
  IF i > Len(s)
  THEN IF start > Len(s) THEN <<>> ELSE <<SubSeq(s, start, Len(s))>>
  ELSE IF SubSeq(s, i, i) = "\n"
  THEN <<SubSeq(s, start, i)>> \o ScanLines(s, i + 1, i + 1)
  ELSE ScanLines(s, start, i + 1)

readlines(content) == ScanLines(content, 1, 1)

\* read_transcripts that returns the last line only
read_transcripts_last_line(file) ==
  IF ~file.exists THEN <<>>
  ELSE LET lines == readlines(file.content)
       IN IF lines = <<>> THEN <<>> ELSE <<lines[Len(lines)]>>

\* [] when the file does not exist, else its lines
read_transcripts(file) ==
  IF ~file.exists THEN <<>> ELSE readlines(file.content)

\* no_transcripts as "transcripts is None", which no list satisfies
no_transcripts_is_none(transcripts) == FALSE

\* generate_notes: "not transcripts"
no_transcripts(transcripts) == transcripts = <<>>

\* generate_notes: return None, None
NoneNone == [notes |-> None, tokens |-> None]

\* save_audio that returns without writing a file
save_audio_writes_nothing(dir, audio_bytes) == dir

\* save_audio: one more file in AUDIO_DIR, named by a fresh uuid4
save_audio(dir, audio_bytes) == Append(dir, audio_bytes)

(***************************************************************************)
(* app/prompts.py: Prompts.get_prompt_v1.  The f-string renders the list   *)
(* of lines with repr(); the fixed instruction text is abbreviated.        *)
(***************************************************************************)
PromptHead ==
  "\n        You are a clinical documentation specialist AI. [...]"
    \o "\n        [Insert Transcript Here]\n\n        transcripts : <"
PromptTail == ">\n\n        "

\* whether string s holds character c
HasChar(s, c) == \E i \in 1..Len(s) : SubSeq(s, i, i) = c

\* repr() of a str: single quotes unless it holds one and no double quote;
\* backslash, the quote and line feed escaped
RECURSIVE EscapeFrom(_, _, _)
EscapeFrom(s, i, quote) ==
  IF i > Len(s) THEN ""
  ELSE LET c == SubSeq(s, i, i)
           e == IF c = "\\" THEN "\\\\"
                ELSE IF c = "\n" THEN "\\n"
                ELSE IF c = quote THEN "\\" \o c
                ELSE c
       IN e \o EscapeFrom(s, i + 1, quote)

repr_str(s) ==
  LET quote == IF HasChar(s, "'") /\ ~HasChar(s, "\"") THEN "\"" ELSE "'"
  IN quote \o EscapeFrom(s, 1, quote) \o quote

\* repr() of a list of str
repr_list(items) ==
  "[" \o JoinStrings(", ", [i \in 1..Len(items) |-> repr_str(items[i])]) \o "]"

get_prompt_v1(transcript) == PromptHead \o repr_list(transcript) \o PromptTail

(***************************************************************************)
(* app/services/llm.py: ChatGPT.get_llm_response                           *)
(***************************************************************************)
\* the arguments of chat.completions.create for a call without kwargs
llm_request(prompt) ==
  [model |-> "gpt-3.5-turbo",
   messages |-> <<[role |-> "user", content |-> prompt]>>,
   temperature |-> 0]

\* from the point the awaited completion ends with outcome o: nothing is
\* caught; response.choices[0].message.content, response.usage.total_tokens
get_llm_response(o) ==
  IF o.raised THEN Raise(o.exc)
  ELSE IF o.response.choices = <<>>
  THEN Raise(Exc("IndexError", "list index out of range"))
  ELSE IF o.response.usage.type = "NoneType"
  THEN Raise(Exc("AttributeError", "'NoneType' object has no attribute 'total_tokens'"))
  ELSE Ok([notes |-> o.response.choices[1].content,
           tokens |-> o.response.usage.v])

(***************************************************************************)
(* app/api.py: the responses of upload_audio and get_notes.  FastAPI turns *)
(* a raised HTTPException into a response of its status with its detail.   *)
(***************************************************************************)
HTTP_500_INTERNAL_SERVER_ERROR == 500
HTTP_200_OK == 200

HTTPException(status_code, detail) ==
  [status_code |-> status_code, body |-> [detail |-> detail]]

\* upload_processing_failed with the exception's message in the detail
upload_processing_failed_leaks(e) ==
  HTTPException(HTTP_500_INTERNAL_SERVER_ERROR, "Audio processing failed: " \o e.msg)

\* upload_audio: except Exception around process_audio
upload_processing_failed(e) ==
  HTTPException(HTTP_500_INTERNAL_SERVER_ERROR, "Audio processing failed")

\* upload_audio: the outer except Exception
upload_unexpected(e) ==
  HTTPException(HTTP_500_INTERNAL_SERVER_ERROR,
                "An unexpected error occurred during audio processing")

\* upload_audio: return {"transcript": transcript, "request_id": request_id}
upload_success(transcript, request_id) ==
  [status_code |-> HTTP_200_OK,
   body |-> [transcript |-> transcript, request_id |-> request_id]]

\* get_notes: except Exception around generate_notes and both returns
notes_failed(e) ==
  HTTPException(HTTP_500_INTERNAL_SERVER_ERROR, "Failed to generate notes")

\* get_notes: if notes is None: return {"notes": None}
notes_none(request_id) ==
  [status_code |-> HTTP_200_OK, body |-> [notes |-> None]]

\* get_notes: return {"notes": notes, "request_id": ..., "tokens_used": tokens}
notes_success(notes, request_id, tokens) ==
  [status_code |-> HTTP_200_OK,
   body |-> [notes |-> notes, request_id |-> request_id, tokens_used |-> tokens]]

\* str(uuid.uuid4()) of request r
request_id(r) == "req-" \o ToString(r)

(***************************************************************************)
(* Inputs.                                                                 *)
(***************************************************************************)
AudioInputs == {"", "mp4-bytes"}

Word(speaker, text) ==
  PyDict([speaker |-> speaker, punctuated_word |-> PyStr(text), word |-> PyStr("raw")])

\* entries of a words array: word tokens of the speech API, with the speaker
\* null, absent, a string or a number, and the text in either field or in
\* neither; a token whose text is null; entries that are no objects
WordTokens ==
  {Word(None, "Hi"), Word(PyStr("A"), "Hi"), Word(PyStr("A"), "there"),
   Word(PyStr("B"), "Hello"), Word(PyInt(0), "Hi"),
   PyDict([punctuated_word |-> PyStr("Hi")]),
   PyDict([speaker |-> PyStr("A"), word |-> PyStr("hello")]),
   PyDict([speaker |-> PyStr("A")])}
NullTextToken == PyDict([speaker |-> PyStr("B"), punctuated_word |-> None])
WordEntries == WordTokens \cup {NullTextToken, PyStr("junk")}

SeqsUpTo(S, n) == UNION {[1..k -> S] : k \in 0..n}

Response(status_code, text, body) ==
  [status_code |-> status_code, text |-> text, body |-> body]
Returned(response) == [raised |-> FALSE, response |-> response]
Raised(e) == [raised |-> TRUE, exc |-> e]
NotJson == [json |-> FALSE]
Json(value) == [json |-> TRUE, value |-> value]

\* a 200 response with the documented nesting around a words value
WordsBody(words) ==
  Json(PyDict([results |-> PyDict([channels |-> PyList(<<
         PyDict([alternatives |-> PyList(<<
           PyDict([words |-> words]) >>)]) >>)])]))

\* 200 responses whose body is not the documented structure
MalformedBodies ==
  {NotJson,
   Json(PyList(<<>>)),
   Json(EmptyDict),
   Json(PyDict([results |-> None])),
   Json(PyDict([results |-> EmptyDict])),
   Json(PyDict([results |-> PyDict([channels |-> PyList(<<>>)])])),
   Json(PyDict([results |-> PyDict([channels |-> PyList(<<EmptyDict>>)])])),
   Json(PyDict([results |-> PyDict([channels |-> PyList(<<
      PyDict([alternatives |-> PyList(<<>>)]) >>)])])),
   Json(PyDict([results |-> PyDict([channels |-> PyList(<<
      PyDict([alternatives |-> PyList(<<EmptyDict>>)]) >>)])])),
   Json(PyDict([results |-> PyDict([channels |-> PyStr("none")])])),
   WordsBody(None)}

\* outcomes of the awaited post other than a 200 response
SpeechFailures ==
  {Raised(Exc("ReadTimeout", "timed out")),
   Raised(Exc("ConnectError", "All connection attempts failed")),
   Raised(Exc("RuntimeError", "Event loop is closed"))}
    \cup {Returned(Response(c, t, NotJson)) :
            c \in {302, 400, 401, 403, 429, 500}, t \in {"", "Rate limit exceeded."}}

\* every outcome of the post, for the specification of one transcribe call
SpeechOutcomes ==
  SpeechFailures
    \cup {Returned(Response(200, "", b)) : b \in MalformedBodies}
    \cup {Returned(Response(200, "", WordsBody(PyList(ws)))) :
            ws \in SeqsUpTo(WordEntries, MaxWords)}

\* the outcomes the specification of concurrent requests draws from
PipelineSpeechOutcomes ==
  {Raised(Exc("ReadTimeout", "timed out")),
   Returned(Response(401, "", NotJson)),
   Returned(Response(200, "", NotJson))}
    \cup {Returned(Response(200, "", WordsBody(PyList(ws)))) :
            ws \in {<<>>,
                    <<Word(PyInt(0), "Hi")>>,
                    <<Word(PyStr("A"), "Hi"), Word(PyStr("B"), "Hello")>>}}

\* outcomes of a file system call: done, or OSError
FsOutcomes == {Ok(TRUE), Raise(Exc("OSError", "[Errno 28] No space left on device"))}

\* outcomes of "from prompts import Prompts" and the f-string
PromptOutcomes == {Ok(TRUE), Raise(Exc("ModuleNotFoundError", "No module named 'prompts'"))}

Completion(choices, usage) == [choices |-> choices, usage |-> usage]

\* outcomes of the awaited chat.completions.create
LLMOutcomes ==
  {Raised(Exc("AuthenticationError", "Incorrect API key provided")),
   Raised(Exc("APIConnectionError", "Connection error.")),
   Raised(Exc("APITimeoutError", "Request timed out.")),
   Raised(Exc("RateLimitError", "Rate limit reached")),
   Returned(Completion(<<>>, PyInt(3))),
   Returned(Completion(<<[content |-> PyStr("S: sore throat")]>>, None)),
   Returned(Completion(<<[content |-> PyStr("S: sore throat")]>>, PyInt(42))),
   Returned(Completion(<<[content |-> None]>>, PyInt(7)))}

\* the transcripts the store specification appends
StoreTranscripts ==
  {"", "Speaker 0: Hi.", "Speaker A: Hi there. Speaker B: Hello.", "a\nb"}

(***************************************************************************)
(* State.                                                                  *)
(***************************************************************************)
VARIABLES
  transcript_file,  \* TRANSCRIPT_FILE: absent, or its content
  audio_dir,        \* AUDIO_DIR: the audio files written, in order
  req,              \* per request: where its handler stands and its locals
  appended,         \* the transcripts save_transcript has written, in order
  readback          \* the store specification's last read_transcripts call

vars == <<transcript_file, audio_dir, req, appended, readback>>

Reqs == 1..MaxReqs

NoExc == [type |-> "none", msg |-> ""]
NoResponse == [status_code |-> 0, body |-> <<>>]
NoRemote == [raised |-> FALSE, response |-> Response(0, "", NotJson)]
NoCall == [ok |-> FALSE, exc |-> NoExc]

IdleRequest ==
  [kind |-> "none",          \* "upload" or "notes" once the request arrived
   pc |-> "idle",            \* idle, read, awaiting_speech, awaiting_llm, done
   audio |-> "",             \* audio_bytes
   saved |-> FALSE,          \* save_audio has written this request's file
   posts |-> 0,              \* requests sent to the speech API
   remote |-> NoRemote,      \* what the awaited remote call ended with
   called |-> NoCall,        \* what transcribe or get_llm_response ended with
   transcripts |-> <<>>,     \* generate_notes: the lines read
   read |-> FALSE,           \* generate_notes: read_transcripts has returned
   prompts |-> 0,            \* calls of generate_prompt
   completions |-> 0,        \* calls of get_llm_response
   llm_request |-> <<>>,     \* the completion request sent
   generated |-> <<>>,       \* what generate_notes returned
   caught |-> NoExc,         \* the exception the handler caught
   response |-> NoResponse]  \* the HTTP response

Init ==
  /\ transcript_file = NoFile
  /\ audio_dir = <<>>
  /\ req = [r \in Reqs |-> IdleRequest]
  /\ appended = <<>>
  /\ readback = [done |-> FALSE]

\* the handler of request r ends by raising the HTTPException for caught e
Fail(r, e, response) ==
  [req[r] EXCEPT !.pc = "done", !.caught = e, !.response = response]

(***************************************************************************)
(* POST /upload/: upload_audio and AudioProcessingFacade.process_audio.    *)
(* A handler runs without interruption between two awaits that suspend:    *)
(* file.read(), the post to the speech API, the chat completion.           *)
(***************************************************************************)
\* the request arrives and "await file.read()" returns the bytes
UploadRead(r, audio_bytes) ==
  /\ req[r].pc = "idle"
  /\ req' = [req EXCEPT ![r] =
               [@ EXCEPT !.kind = "upload", !.pc = "read", !.audio = audio_bytes]]
  /\ UNCHANGED <<transcript_file, audio_dir, appended, readback>>

\* the request arrives and "await file.read()" raises: the outer except
UploadReadFails(r, e) ==
  /\ req[r].pc = "idle"
  /\ req' = [req EXCEPT ![r] =
               [Fail(r, e, upload_unexpected(e)) EXCEPT !.kind = "upload"]]
  /\ UNCHANGED <<transcript_file, audio_dir, appended, readback>>

\* Transcribe that sends the request a second time
Transcribe_retries(r, c) ==
  IF ~c.ok
  THEN [Fail(r, c.exc, upload_processing_failed(c.exc))
          EXCEPT !.saved = TRUE, !.called = c]
  ELSE [req[r] EXCEPT !.saved = TRUE, !.pc = "awaiting_speech", !.posts = @ + 2]

\* transcribe from its entry (c: the empty check) to the awaited post
Transcribe(r, c) ==
  IF ~c.ok
  THEN [Fail(r, c.exc, upload_processing_failed(c.exc))
          EXCEPT !.saved = TRUE, !.called = c]
  ELSE [req[r] EXCEPT !.saved = TRUE, !.pc = "awaiting_speech", !.posts = @ + 1]

\* process_audio up to the awaited post inside transcribe: save_audio, then
\* the empty check of transcribe, then the request is sent
ProcessAudio(r, fs) ==
  /\ req[r].pc = "read"
  /\ IF ~fs.ok
     THEN /\ req' = [req EXCEPT ![r] =
                       Fail(r, fs.exc, upload_processing_failed(fs.exc))]
          /\ UNCHANGED audio_dir
     ELSE /\ audio_dir' = save_audio(audio_dir, req[r].audio)
          /\ req' = [req EXCEPT ![r] = Transcribe(r, check_audio(req[r].audio))]
  /\ UNCHANGED <<transcript_file, appended, readback>>

\* the post ends with outcome o: the rest of transcribe, then save_transcript
\* (fs: whether the append succeeds) and the return of upload_audio
Transcribed(r, o, fs, t) ==
  IF ~t.ok
  THEN /\ req' = [req EXCEPT ![r] =
                    [@ EXCEPT !.remote = o, !.called = t,
                              !.pc = "done", !.caught = t.exc,
                              !.response = upload_processing_failed(t.exc)]]
       /\ UNCHANGED <<transcript_file, appended>>
  ELSE IF ~fs.ok
  THEN /\ req' = [req EXCEPT ![r] =
                    [@ EXCEPT !.remote = o, !.called = t,
                              !.pc = "done", !.caught = fs.exc,
                              !.response = upload_processing_failed(fs.exc)]]
       /\ UNCHANGED <<transcript_file, appended>>
  ELSE /\ transcript_file' = save_transcript(transcript_file, t.val.transcript)
       /\ appended' = Append(appended, t.val.transcript)
       /\ req' = [req EXCEPT ![r] =
                    [@ EXCEPT !.remote = o, !.called = t,
                              !.pc = "done",
                              !.response = upload_success(t.val.transcript,
                                                          request_id(r))]]

SpeechResponds(r, o, fs) ==
  /\ req[r].pc = "awaiting_speech"
  /\ Transcribed(r, o, fs, transcribe_result(o))
  /\ UNCHANGED <<audio_dir, readback>>

(***************************************************************************)
(* GET /notes/: get_notes and NotesGenerator.generate_notes.               *)
(***************************************************************************)
\* the request arrives; generate_notes reads the log (fs: whether reading an
\* existing file succeeds), returns (None, None) on no lines, else builds the
\* prompt (pb: whether that succeeds) and sends the completion request
NotesRequest(r, fs, pb) ==
  /\ req[r].pc = "idle"
  /\ fs.ok \/ transcript_file.exists
  /\ LET lines == read_transcripts(transcript_file)
         arrived == [req[r] EXCEPT !.kind = "notes"]
         prompt == get_prompt_v1(lines)
     IN
       IF ~fs.ok
       THEN req' = [req EXCEPT ![r] =
                      [arrived EXCEPT !.pc = "done", !.caught = fs.exc,
                                      !.response = notes_failed(fs.exc)]]
       ELSE IF no_transcripts(lines)
       THEN req' = [req EXCEPT ![r] =
                      [arrived EXCEPT !.pc = "done", !.read = TRUE,
                                      !.generated = NoneNone,
                                      !.response = notes_none(request_id(r))]]
       ELSE IF ~pb.ok
       THEN req' = [req EXCEPT ![r] =
                      [arrived EXCEPT !.pc = "done", !.read = TRUE,
                                      !.transcripts = lines,
                                      !.prompts = @ + 1,
                                      !.caught = pb.exc,
                                      !.response = notes_failed(pb.exc)]]
       ELSE req' = [req EXCEPT ![r] =
                      [arrived EXCEPT !.pc = "awaiting_llm", !.read = TRUE,
                                      !.transcripts = lines,
                                      !.prompts = @ + 1,
                                      !.completions = @ + 1,
                                      !.llm_request = llm_request(prompt)]]
  /\ UNCHANGED <<transcript_file, audio_dir, appended, readback>>

\* the completion ends with outcome o: the rest of get_llm_response, of
\* generate_notes and of get_notes
Completed(r, o, g) ==
  IF ~g.ok
  THEN [req[r] EXCEPT !.remote = o, !.called = g, !.pc = "done",
                      !.caught = g.exc, !.response = notes_failed(g.exc)]
  ELSE IF g.val.notes.type = "NoneType"
  THEN [req[r] EXCEPT !.remote = o, !.called = g, !.pc = "done",
                      !.generated = g.val,
                      !.response = notes_none(request_id(r))]
  ELSE [req[r] EXCEPT !.remote = o, !.called = g, !.pc = "done",
                      !.generated = g.val,
                      !.response = notes_success(g.val.notes, request_id(r),
                                                 g.val.tokens)]

LLMResponds(r, o) ==
  /\ req[r].pc = "awaiting_llm"
  /\ req' = [req EXCEPT ![r] = Completed(r, o, get_llm_response(o))]
  /\ UNCHANGED <<transcript_file, audio_dir, appended, readback>>

(***************************************************************************)
(* The transcript store on its own: save_transcript and read_transcripts.  *)
(***************************************************************************)
StoreSave(transcript) ==
  /\ Len(appended) < MaxSaves
  /\ transcript_file' = save_transcript(transcript_file, transcript)
  /\ appended' = Append(appended, transcript)
  /\ UNCHANGED <<audio_dir, req, readback>>

StoreRead ==
  /\ readback' = [done |-> TRUE,
                  lines |-> read_transcripts(transcript_file),
                  appended |-> appended]
  /\ UNCHANGED <<transcript_file, audio_dir, req, appended>>

(***************************************************************************)
(* Specifications.                                                         *)
(***************************************************************************)
\* upload and notes requests, interleaved at their awaits
Next ==
  \E r \in Reqs :
    \/ \E a \in AudioInputs : UploadRead(r, a)
    \/ UploadReadFails(r, Exc("ClientDisconnect", "client closed the connection"))
    \/ \E fs \in FsOutcomes : ProcessAudio(r, fs)
    \/ \E o \in PipelineSpeechOutcomes, fs \in FsOutcomes : SpeechResponds(r, o, fs)
    \/ \E fs \in FsOutcomes, pb \in PromptOutcomes : NotesRequest(r, fs, pb)
    \/ \E o \in LLMOutcomes : LLMResponds(r, o)

Spec == Init /\ [][Next]_vars

\* one upload, over every outcome of the speech API
NextTranscribe ==
  \/ \E a \in AudioInputs : UploadRead(1, a)
  \/ \E fs \in FsOutcomes : ProcessAudio(1, fs)
  \/ \E o \in SpeechOutcomes, fs \in FsOutcomes : SpeechResponds(1, o, fs)

SpecTranscribe == Init /\ [][NextTranscribe]_vars

\* the store alone: appends from no file, and reads
NextStore ==
  \/ \E t \in StoreTranscripts : StoreSave(t)
  \/ StoreRead

SpecStore == Init /\ [][NextStore]_vars

(***************************************************************************)
(* Properties.                                                             *)
(***************************************************************************)
\* request r is an upload whose transcribe call returned a transcript
ReturnedTranscript(r) == req[r].kind = "upload" /\ req[r].called.ok

\* request r is an upload whose transcribe call was made and has ended
TranscribeEnded(r) == req[r].kind = "upload" /\ req[r].saved /\ req[r].pc = "done"

IsObject(entry) == entry.type = "dict"

\* the word tokens of the words array request r received, in order
Tokens(r) == SelectSeq(req[r].called.val.words, IsObject)

\* the display text of a token: the punctuated form, else the raw one, else ""
TokenText(tok) ==
  IF "punctuated_word" \in DOMAIN tok.v THEN tok.v.punctuated_word
  ELSE IF "word" \in DOMAIN tok.v THEN tok.v.word
  ELSE PyStr("")

\* the speaker id of a token, null when it has none
TokenSpeaker(tok) == IF "speaker" \in DOMAIN tok.v THEN tok.v.speaker ELSE None

RECURSIVE Concat(_)
Concat(seqs) == IF seqs = <<>> THEN <<>> ELSE Head(seqs) \o Concat(Tail(seqs))

\* C1: the word lists of the utterances transcribe built, concatenated in
\* output order, are the texts of the word tokens it received, in their order:
\* no token dropped, duplicated or moved.
C1_UtterancesCoverTokens ==
  \A r \in Reqs :
    ReturnedTranscript(r) =>
      LET u == req[r].called.val.utterances IN
      Concat([i \in 1..Len(u) |-> u[i].words])
        = [i \in 1..Len(Tokens(r)) |-> TokenText(Tokens(r)[i])]

\* three tokens, with a change of speaker, were grouped into two utterances
C1_Witness ==
  \E r \in Reqs :
    /\ ReturnedTranscript(r)
    /\ Len(req[r].called.val.words) = 3
    /\ Len(Tokens(r)) = 3
    /\ Len(req[r].called.val.utterances) = 2

\* the maximal runs of consecutive tokens with the same speaker id, null
\* being one id: each run with its speaker and its texts
RECURSIVE MaximalRuns(_)
MaximalRuns(tokens) ==
  IF tokens = <<>> THEN <<>>
  ELSE LET rest == MaximalRuns(Tail(tokens))
           speaker == TokenSpeaker(Head(tokens))
           text == TokenText(Head(tokens))
       IN IF rest # <<>> /\ rest[1].speaker = speaker
          THEN <<[speaker |-> speaker, words |-> <<text>> \o rest[1].words]>>
                 \o Tail(rest)
          ELSE <<[speaker |-> speaker, words |-> <<text>>]>> \o rest

SpeakerText(speaker) ==
  IF speaker.type = "NoneType" THEN "None"
  ELSE IF speaker.type = "int" THEN ToString(speaker.v)
  ELSE speaker.v

\* "Speaker {id}: {words joined by single spaces}."
UtteranceText(u) ==
  "Speaker " \o SpeakerText(u.speaker) \o ": "
    \o JoinStrings(" ", [i \in 1..Len(u.words) |-> u.words[i].v]) \o "."

ExampleAAB ==
  <<Word(PyStr("A"), "Hi"), Word(PyStr("A"), "there"), Word(PyStr("B"), "Hello")>>
ExampleNull == <<Word(None, "Hi")>>

\* C2: transcribe emits one utterance per maximal run of tokens with equal
\* speaker id (null one id among the others), no two adjacent utterances have
\* the same speaker, the transcript is the utterances rendered
\* "Speaker {id}: {words}." and joined by single spaces, and the two examples
\* give "Speaker A: Hi there. Speaker B: Hello." and "Speaker None: Hi.".
C2_OneUtterancePerRun ==
  \A r \in Reqs :
    ReturnedTranscript(r) =>
      LET u == req[r].called.val.utterances
          t == req[r].called.val.transcript
      IN /\ u = MaximalRuns(Tokens(r))
         /\ \A i \in 1..(Len(u) - 1) : u[i].speaker # u[i + 1].speaker
         /\ t = JoinStrings(" ", [i \in 1..Len(u) |-> UtteranceText(u[i])])
         /\ req[r].called.val.words = ExampleAAB
              => t = "Speaker A: Hi there. Speaker B: Hello."
         /\ req[r].called.val.words = ExampleNull => t = "Speaker None: Hi."

\* the first example was transcribed
C2_Witness ==
  \E r \in Reqs :
    /\ ReturnedTranscript(r)
    /\ req[r].called.val.words = ExampleAAB
    /\ Len(req[r].called.val.utterances) = 2

\* two tokens without speaker id, one after the other, were transcribed
C2_WitnessNull ==
  \E r \in Reqs :
    /\ ReturnedTranscript(r)
    /\ req[r].called.val.words = <<Word(None, "Hi"), PyDict([punctuated_word |-> PyStr("Hi")])>>

\* C3: read_transcripts, after save_transcript was called on each of N
\* transcripts from no log file, returns exactly those N transcripts, in order.
C3_RoundTrip == readback.done => readback.lines = readback.appended

\* C4: a notes request that finds the log empty (no lines read; in particular
\* while the log file does not exist, where the read returns no lines and no
\* error) ends with generate_notes returning (None, None), and it called
\* neither the prompt builder nor the completion client.
C4_EmptyLogShortCircuits ==
  \A r \in Reqs :
    /\ (req[r].kind = "notes" /\ ~transcript_file.exists)
         => req[r].read /\ req[r].transcripts = <<>> /\ req[r].caught = NoExc
    /\ (req[r].kind = "notes" /\ req[r].read /\ req[r].transcripts = <<>>)
         => /\ req[r].pc = "done"
            /\ req[r].generated = NoneNone
            /\ req[r].prompts = 0
            /\ req[r].completions = 0

\* a notes request ended on the absent log file without an error
C4_Witness ==
  \E r \in Reqs :
    /\ req[r].kind = "notes" /\ req[r].pc = "done"
    /\ req[r].read /\ req[r].transcripts = <<>>
    /\ ~transcript_file.exists
    /\ req[r].response.status_code = HTTP_200_OK

\* C5: transcribe called with empty audio ends with the transcription error,
\* and the request never sent anything to the speech API.
C5_EmptyAudioNoRequest ==
  \A r \in Reqs :
    (req[r].kind = "upload" /\ req[r].saved /\ req[r].audio = "")
      => /\ req[r].pc = "done"
         /\ ~req[r].called.ok
         /\ req[r].called.exc.type = "DeepgramTranscriptionError"
         /\ req[r].posts = 0

\* an upload of empty audio reached transcribe and ended
C5_Witness ==
  \E r \in Reqs :
    req[r].kind = "upload" /\ req[r].saved /\ req[r].audio = "" /\ req[r].pc = "done"

\* the value at results -> channels[0] -> alternatives[0] -> words is there
HasWordsPath(v) ==
  /\ v.type = "dict" /\ "results" \in DOMAIN v.v
  /\ v.v.results.type = "dict" /\ "channels" \in DOMAIN v.v.results.v
  /\ LET channels == v.v.results.v.channels IN
     /\ channels.type = "list" /\ channels.v # <<>>
     /\ channels.v[1].type = "dict" /\ "alternatives" \in DOMAIN channels.v[1].v
     /\ LET alternatives == channels.v[1].v.alternatives IN
        /\ alternatives.type = "list" /\ alternatives.v # <<>>
        /\ alternatives.v[1].type = "dict"
        /\ "words" \in DOMAIN alternatives.v[1].v

WordsAt(v) == v.v.results.v.channels.v[1].v.alternatives.v[1].v.words

\* a 2xx response that does not parse into word tokens: no JSON, no word
\* path, a words value that is no array, a token whose text is no string
Unparseable(response) ==
  \/ ~response.body.json
  \/ ~HasWordsPath(response.body.value)
  \/ WordsAt(response.body.value).type # "list"
  \/ \E i \in 1..Len(WordsAt(response.body.value).v) :
       LET entry == WordsAt(response.body.value).v[i] IN
       IsObject(entry) /\ TokenText(entry).type # "str"

\* why the call of request r must fail, "none" when nothing says so
FailureCause(r) ==
  LET o == req[r].remote IN
  IF req[r].posts = 0 THEN "empty"
  ELSE IF o.raised
  THEN IF o.exc.type \in TimeoutClasses THEN "timeout" ELSE "none"
  ELSE IF o.response.status_code = 401 THEN "authentication"
  ELSE IF o.response.status_code = 400 THEN "bad_request"
  ELSE IF o.response.status_code = 429 THEN "rate_limit"
  ELSE IF o.response.status_code \notin 200..299 THEN "http_status"
  ELSE IF Unparseable(o.response) THEN "parse"
  ELSE "none"

StartsWith(s, prefix) ==
  Len(s) >= Len(prefix) /\ SubSeq(s, 1, Len(prefix)) = prefix

\* the kinds of failure a caller reads off the error's message
ErrorKinds(msg) ==
  {k \in {"authentication", "bad_request", "rate_limit", "http_status",
          "timeout", "parse"} :
     \/ k = "authentication" /\ msg = "Authentication failed. Check your API key."
     \/ k = "bad_request" /\ StartsWith(msg, "Bad request: ")
     \/ k = "rate_limit" /\ msg = "Rate limit exceeded. Try again later."
     \/ k = "http_status" /\ StartsWith(msg, "API request failed with status ")
     \/ k = "timeout" /\ msg = "Transcription request timed out"
     \/ k = "parse" /\ StartsWith(msg, "Transcription failed: ")}

C8_NotesResponseFields ==
  \A r \in Reqs :
    (req[r].kind = "notes" /\ req[r].pc = "done"
       /\ req[r].response.status_code = HTTP_200_OK)
      => DOMAIN req[r].response.body = {"notes", "request_id", "tokens_used"}

GenericDetails ==
  {"Audio processing failed",
   "An unexpected error occurred during audio processing",
   "Failed to generate notes",
   "An unexpected error occurred during notes generation"}

\* a step of request r raised
StepFailed(r) ==
  \/ req[r].caught # NoExc
  \/ req[r].called # NoCall /\ ~req[r].called.ok

\* C9: a request in which a step failed (audio write, transcription, log
\* append, log read, prompt build, completion) ends with a 500 response whose
\* only content is one of the fixed messages, whatever the exception was; a
\* request ends with a 200 response only when no step failed.
C9_FailuresAreGeneric500 ==
  \A r \in Reqs :
    req[r].pc = "done" =>
      /\ req[r].response.status_code \in {HTTP_200_OK, HTTP_500_INTERNAL_SERVER_ERROR}
      /\ StepFailed(r) <=> req[r].response.status_code = HTTP_500_INTERNAL_SERVER_ERROR
      /\ StepFailed(r) =>
           /\ DOMAIN req[r].response.body = {"detail"}
           /\ req[r].response.body.detail \in GenericDetails

\* an upload ended on a transcription error, and a notes request on a failed
\* completion
C9_Witness ==
  /\ \E r \in Reqs :
       /\ req[r].kind = "upload" /\ req[r].pc = "done"
       /\ req[r].caught.type = "DeepgramTranscriptionError"
       /\ req[r].caught.msg = "Authentication failed. Check your API key."
  /\ \E r \in Reqs :
       /\ req[r].kind = "notes" /\ req[r].pc = "done"
       /\ req[r].caught.type = "RateLimitError"

\* C10: whatever the remote failure, the exception get_llm_response ends
\* with is a NoteGenerationError.
C10_NoteGenerationError ==
  \A r \in Reqs :
    (req[r].kind = "notes" /\ req[r].called # NoCall /\ ~req[r].called.ok)
      => req[r].called.exc.type = "NoteGenerationError"

\* request r takes part in the step
Acts(r) == req'[r] # req[r]

\* in this step process_audio of request r enters transcribe
TranscribeInvoked(r) ==
  /\ req[r].pc = "read"
  /\ req'[r].posts > req[r].posts \/ req'[r].called # NoCall

\* in this step request r returns from upload_audio with a transcript
UploadReturns(r) ==
  /\ req[r].kind = "upload" /\ req[r].response = NoResponse
  /\ req'[r].response.status_code = HTTP_200_OK

\* in this step save_audio of request r raised
PersistFails(r) ==
  /\ Acts(r) /\ req[r].pc = "read" /\ audio_dir' = audio_dir

C11_Step ==
  /\ \A r \in Reqs :
       /\ TranscribeInvoked(r) => audio_dir' = Append(audio_dir, req[r].audio)
       /\ UploadReturns(r) =>
            /\ req[r].pc = "awaiting_speech" /\ req'[r].called.ok
            /\ req'[r].response.body.transcript = req'[r].called.val.transcript
            /\ transcript_file'.exists
            /\ transcript_file'.content =
                 transcript_file.content \o req'[r].response.body.transcript \o "\n"
       /\ PersistFails(r) =>
            /\ req'[r].pc = "done" /\ req'[r].posts = 0 /\ req'[r].called = NoCall
            /\ req'[r].response.status_code = HTTP_500_INTERNAL_SERVER_ERROR
            /\ transcript_file' = transcript_file
       /\ req[r].pc = "done" => ~Acts(r)
  /\ transcript_file' # transcript_file =>
       \E r \in Reqs : UploadReturns(r) /\ \A q \in Reqs \ {r} : ~Acts(q)

\* C11: process_audio runs persist audio, transcribe, append transcript,
\* return, in that order: a step that enters transcribe has written the
\* request's audio file; the log changes only in a step in which one upload's
\* transcribe call returned a transcript, by that transcript and a line feed,
\* and that upload returns exactly that transcript; a request whose audio
\* write failed ends without a transcribe call and without an append, and a
\* request that ended does nothing more.
C11_StepsInOrder == [][C11_Step]_vars

\* one upload appended and returned its transcript, another one ended on a
\* failed audio write
C11_Witness ==
  /\ \E r \in Reqs :
       /\ req[r].kind = "upload" /\ req[r].pc = "done"
       /\ req[r].response = upload_success("Speaker 0: Hi.", request_id(r))
       /\ transcript_file.content = "Speaker 0: Hi.\n"
       /\ Len(audio_dir) = 1
  /\ \E r \in Reqs :
       /\ req[r].kind = "upload" /\ req[r].pc = "done"
       /\ req[r].caught.type = "OSError" /\ req[r].called = NoCall
       /\ req[r].posts = 0

\* in this step the transcribe call of upload r ends with an error
TranscribeFails(r) ==
  /\ req[r].kind = "upload"
  /\ req[r].called = NoCall /\ req'[r].called # NoCall /\ ~req'[r].called.ok

IsPrefix(s, t) == Len(s) <= Len(t) /\ SubSeq(t, 1, Len(s)) = s

C12_Step ==
  /\ IsPrefix(audio_dir, audio_dir')
  /\ Len(audio_dir') =
       Cardinality({r \in Reqs : req'[r].kind = "upload"
                                   /\ (req'[r].posts > 0 \/ req'[r].called # NoCall)})
  /\ \A r \in Reqs :
       /\ TranscribeFails(r) =>
            /\ req'[r].called.exc.type = "DeepgramTranscriptionError"
            /\ req[r].pc = "read" => audio_dir' = Append(audio_dir, req[r].audio)
            /\ req[r].pc = "awaiting_speech" => audio_dir' = audio_dir
            /\ transcript_file' = transcript_file
            /\ req'[r].pc = "done"
            /\ req'[r].response.status_code = HTTP_500_INTERNAL_SERVER_ERROR
       /\ req[r].called # NoCall => req'[r].called = req[r].called
       /\ req'[r].posts >= req[r].posts /\ req'[r].posts <= 1
       /\ req'[r].completions >= req[r].completions /\ req'[r].completions <= 1
       /\ req'[r].kind = "upload" => req'[r].completions = 0
       /\ req'[r].kind = "notes" => req'[r].posts = 0

\* C12: a step in which an upload's transcribe call fails (the empty check
\* included) leaves the audio file it wrote in the audio directory and the
\* log as it was, and ends the request with a 500 response; no step removes
\* an audio file; a request sends at most one request to the speech API, its
\* transcribe call ends once, and a notes request calls the completion
\* client at most once.
C12_NoRollbackNoRetry == [][C12_Step]_vars

\* an upload ended on a timed out transcription after one request, its audio
\* file still there next to that of a successful upload, whose one line is
\* the whole log; a notes request ended after its one completion call
C12_Witness ==
  /\ \E r \in Reqs :
       /\ req[r].kind = "upload" /\ req[r].pc = "done" /\ req[r].posts = 1
       /\ req[r].called = Raise(DeepgramTranscriptionError("Transcription request timed out"))
       /\ req[r].response.status_code = HTTP_500_INTERNAL_SERVER_ERROR
  /\ Len(audio_dir) = 2 /\ transcript_file.content = "Speaker 0: Hi.\n"
  /\ \E r \in Reqs :
       req[r].kind = "notes" /\ req[r].pc = "done" /\ req[r].completions = 1

\* the least position from i on at which sub occurs in s, 0 when there is none
RECURSIVE FindFrom(_, _, _)
FindFrom(s, sub, i) ==
  IF i + Len(sub) - 1 > Len(s) THEN 0
  ELSE IF SubSeq(s, i, i + Len(sub) - 1) = sub THEN i
  ELSE FindFrom(s, sub, i + 1)

\* the strings of ts from the k-th on occur in s from position i on, one
\* after the other
RECURSIVE ContainsInOrder(_, _, _, _)
ContainsInOrder(s, ts, k, i) ==
  IF k > Len(ts) THEN TRUE
  ELSE LET at == FindFrom(s, ts[k], i)
       IN at > 0 /\ ContainsInOrder(s, ts, k + 1, at + Len(ts[k]))

\* the prompt of the completion request that request r sent
SentPrompt(r) == req'[r].llm_request.messages[1].content

\* in this step notes request r arrives, reads the log and goes on
NotesArrives(r) == req[r].pc = "idle" /\ req'[r].kind = "notes"

C13_Step ==
  \A r \in Reqs :
    /\ (NotesArrives(r) /\ transcript_file.content # "" /\ req'[r].caught = NoExc) =>
         /\ req'[r].pc = "awaiting_llm" /\ req'[r].completions = 1
         /\ transcript_file' = transcript_file
         /\ Len(req'[r].llm_request.messages) = 1
         /\ Len(req'[r].transcripts) = Len(appended)
         /\ SentPrompt(r) =
              get_prompt_v1([i \in 1..Len(appended) |-> appended[i] \o "\n"])
         /\ SubSeq(SentPrompt(r), 1, Len(PromptHead)) = PromptHead
         /\ ContainsInOrder(SentPrompt(r), appended, 1, Len(PromptHead) + 1)
    /\ req'[r].completions > req[r].completions => NotesArrives(r)
    /\ req[r].completions > 0 =>
         /\ req'[r].llm_request = req[r].llm_request
         /\ req'[r].transcripts = req[r].transcripts
    /\ \A q \in Reqs :
         (req'[r].completions > 0 /\ req'[q].completions > 0
            /\ req'[r].transcripts = req'[q].transcripts)
           => req'[r].llm_request = req'[q].llm_request

\* C13: a notes request that reads a non-empty log (and whose read and
\* prompt build raise nothing) sends, in the step of its read, one completion
\* request whose single message is the prompt of the whole log at that read:
\* the prompt of the lines of every transcript appended so far, holding these
\* transcripts after the instruction text in append order; two requests that
\* read the same lines send the same request; what a request sent is not
\* changed by any later step, so a transcript appended after the read is not
\* in it.
C13_PromptFromLogAtRead == [][C13_Step]_vars

\* a notes request sent the prompt of the one transcript it read, and an
\* upload has appended a second transcript since
C13_Witness ==
  \E r \in Reqs :
    /\ req[r].kind = "notes" /\ req[r].completions = 1
    /\ req[r].transcripts = <<"Speaker 0: Hi.\n">>
    /\ req[r].llm_request.messages[1].content =
         PromptHead \o "['Speaker 0: Hi.\\n']" \o PromptTail
    /\ appended = <<"Speaker 0: Hi.", "Speaker A: Hi. Speaker B: Hello.">>
    /\ transcript_file.content = "Speaker 0: Hi.\nSpeaker A: Hi. Speaker B: Hello.\n"

\* the uploads that reached the logged step: they ended with their transcript
Logged ==
  {r \in Reqs : req[r].kind = "upload" /\ req[r].response.status_code = HTTP_200_OK}

\* the entries of the log: the lines of the file
Entries(file) == read_transcripts(file)

RECURSIVE LogOf(_)
LogOf(ts) == IF ts = <<>> THEN "" ELSE ts[1] \o "\n" \o LogOf(Tail(ts))

C14_Inv ==
  /\ Len(Entries(transcript_file)) = Cardinality(Logged)
  /\ Len(appended) = Cardinality(Logged)
  /\ transcript_file.content = LogOf(appended)
  /\ transcript_file.exists <=> Logged # {}
  /\ Len(Entries(transcript_file)) <= Len(audio_dir)

C14_Step ==
  /\ Len(transcript_file.content) <= Len(transcript_file'.content)
  /\ SubSeq(transcript_file'.content, 1, Len(transcript_file.content))
       = transcript_file.content
  /\ IsPrefix(Entries(transcript_file), Entries(transcript_file'))
  /\ transcript_file.exists => transcript_file'.exists
  /\ \A r \in Reqs :
       /\ (Acts(r) /\ req'[r].kind = "notes") => transcript_file' = transcript_file
       /\ UploadReturns(r) =>
            Len(Entries(transcript_file')) = Len(Entries(transcript_file)) + 1
       /\ (Acts(r) /\ req'[r].kind = "upload" /\ ~UploadReturns(r)) =>
            transcript_file' = transcript_file

\* C14: under every interleaving of upload and notes requests the log is
\* append-only: every step leaves the file's content and its lines a prefix
\* of what they are afterwards; a step of a notes request, and a step of an
\* upload other than its successful return, leaves the file as it was; the
\* successful return of an upload adds one line; so the number of lines
\* always equals the number of uploads that ended with their transcript and
\* is at most the number of audio files written.
C14_LogAppendOnly == [](C14_Inv) /\ [][C14_Step]_vars

\* two uploads have appended their transcripts, a third one wrote its audio
\* file and failed in transcription
C14_Witness ==
  /\ Cardinality(Logged) = 2 /\ Len(audio_dir) = 3
  /\ Entries(transcript_file) =
       <<"Speaker A: Hi. Speaker B: Hello.\n", "Speaker 0: Hi.\n">>
  /\ \E r \in Reqs :
       /\ req[r].kind = "upload" /\ req[r].pc = "done"
       /\ req[r].caught.type = "DeepgramTranscriptionError"

====
